---- MODULE Spec2Model ----
(***************************************************************************)
(* Model of the deepchecks weak-segments check                              *)
(* (WeakSegmentsAbstractText.run_logic and its collaborators).              *)
(*                                                                          *)
(* One run of run_logic is a chain of stages; pc is the position of the     *)
(* run inside run_logic, calls is the log of the collaborator calls made   *)
(* so far (in order), seeds records which seed every random-dependent step *)
(* was handed.  Scores are integers in units of 0.001.                      *)
(*                                                                          *)
(* Five smaller models follow it, each with its own specification: the      *)
(* run() methods of the tabular base checks (SpecBaseChecks), the           *)
(* constructor and condition of UserSessionDrift (SpecDrift),               *)
(* ConflictingLabels.run_logic (SpecLabels), the recommender Context with   *)
(* its _DummyModel (SpecRec) and the PredictionDrift tests (SpecDriftTest). *)
(* In each specification the variables of the other models stay idle.       *)
(***************************************************************************)
EXTENDS Integers, Sequences, FiniteSets, TLC

\* ------------------------------------------------------------------ bounds
MaxRows == 3
\* calls of run() on one tabular check instance
MaxRuns == 2
\* rows of the dataset ConflictingLabels runs on
MaxTexts == 4
\* rows of the train and of the test dataset of a recommender Context
MaxRecRows == 2
\* accesses of item_popularity on one recommender Context
MaxAccesses == 2
\* predictions handed to one run of the prediction-drift check
MaxPredictions == 3
\* largest drift score and threshold, in units of 0.05
MaxDriftScore == 3
\* conditions added to one UserSessionDrift check
MaxConditions == 2

\* ------------------------------------------------------------ small domains
\* None for a structured value (a table, a record, a list) is the empty tuple
None == <<>>
Rows == 1..MaxRows
Columns == <<"c1", "c2">>
ColumnSet == {Columns[i] : i \in 1..Len(Columns)}
CategoricalColumns == {"c1"}
CatVals == {"A", "B"}
Labels == {0, 1}
ScoreValues == {0, 1000}
ProbaLevels == {"lo", "hi"}
Seeds == {0, 1}
TaskTypes == {"text_classification", "token_classification", "other"}
Ratios == {<<1, 3>>, <<2, 3>>}

VARIABLES
    dataset,            \* context.get_data_by_kind(dataset_kind): row id -> record
    check,              \* the check instance (self): its constructor parameters
    context,            \* the run's Context: task type, model, seed, display mode
    pc,                 \* position of the run inside run_logic
    calls,              \* collaborator calls made so far, in order
    seeds,              \* random-dependent step -> the seed it was handed
    text_data,          \* the sampled copy of the dataset
    features,           \* columns of the feature table
    cat_features,       \* the categorical ones among them
    encoded_dataset,    \* the target-encoded table
    score_per_sample,   \* the per-sample scores used for the search
    scoring,            \* [scorer, dummy_model, avg_score] chosen by the scoring stage
    members,            \* feature subsets the search ensemble was trained on
    weak_segments,      \* ranked segment list returned by the search
    outcome,            \* how the run ended: exception class or CheckResult
    result,             \* the returned CheckResult (value and display)
    run,                \* number of the current run on these inputs
    prev,               \* what the previous run on the same inputs produced
    instance,           \* a tabular base check: its class and self.context_type
    call,               \* the call of run() in progress on it: arguments, position
    n_runs,             \* number of run() calls made on the instance
    drift_check,        \* a UserSessionDrift instance: aggregation_method, conditions
    drift_eval,         \* the last evaluation of one of its conditions
    labels_check,       \* a ConflictingLabels instance with its context and dataset
    labels_run,         \* the locals and position of its run_logic
    rec_data,           \* the train and test datasets handed to recommender Contexts
    rec_contexts,       \* the recommender Context objects built on them
    drift_test          \* a run of PredictionDrift as the tests of the nlp package do it

inputs == <<dataset, check, context>>
\* the state of the tabular base checks, which no weak-segments step touches
elsewhere == <<instance, call, n_runs, drift_check, drift_eval, labels_check, labels_run,
               rec_data, rec_contexts, drift_test>>
\* the state that no step of a tabular base check touches
outside_base == <<dataset, check, context, pc, calls, seeds, text_data, features,
                  cat_features, encoded_dataset, score_per_sample, scoring, members,
                  weak_segments, outcome, result, run, prev,
                  drift_check, drift_eval, labels_check, labels_run,
                  rec_data, rec_contexts, drift_test>>
\* the state that no step of UserSessionDrift touches
outside_drift == <<dataset, check, context, pc, calls, seeds, text_data, features,
                   cat_features, encoded_dataset, score_per_sample, scoring, members,
                   weak_segments, outcome, result, run, prev,
                   instance, call, n_runs, labels_check, labels_run,
                   rec_data, rec_contexts, drift_test>>
\* the state that no step of ConflictingLabels touches
outside_labels == <<dataset, check, context, pc, calls, seeds, text_data, features,
                    cat_features, encoded_dataset, score_per_sample, scoring, members,
                    weak_segments, outcome, result, run, prev,
                    instance, call, n_runs, drift_check, drift_eval,
                    rec_data, rec_contexts, drift_test>>
\* the state that no step of a recommender Context touches
outside_rec == <<dataset, check, context, pc, calls, seeds, text_data, features,
                 cat_features, encoded_dataset, score_per_sample, scoring, members,
                 weak_segments, outcome, result, run, prev,
                 instance, call, n_runs, drift_check, drift_eval,
                 labels_check, labels_run, drift_test>>
\* the state that no step of the PredictionDrift tests touches
outside_test == <<dataset, check, context, pc, calls, seeds, text_data, features,
                  cat_features, encoded_dataset, score_per_sample, scoring, members,
                  weak_segments, outcome, result, run, prev,
                  instance, call, n_runs, drift_check, drift_eval,
                  labels_check, labels_run, rec_data, rec_contexts>>
locals == <<text_data, features, cat_features, encoded_dataset, score_per_sample,
            scoring, members, weak_segments>>
vars == <<dataset, check, context, pc, calls, seeds, text_data, features,
          cat_features, encoded_dataset, score_per_sample, scoring, members,
          weak_segments, outcome, result, run, prev, instance, call, n_runs,
          drift_check, drift_eval, labels_check, labels_run,
          rec_data, rec_contexts, drift_test>>

\* --------------------------------------------------------------- helpers
RECURSIVE SumOver(_, _)
SumOver(f, S) ==
    IF S = {} THEN 0
    ELSE LET x == CHOOSE y \in S : TRUE IN f[x] + SumOver(f, S \ {x})

Min(a, b) == IF a < b THEN a ELSE b

InSeq(x, s) == \E i \in 1..Len(s) : s[i] = x

\* a / b rounded to the nearest integer (b > 0; the domains produce no ties)
RoundDiv(a, b) == (2 * a + b) \div (2 * b)

\* ------------------------------------------------------------------ inputs
\* the rows of a dataset: c1 is a categorical column, c2 a numerical one
MakeRow(i, c) == [c1 |-> c, c2 |-> (i \div 2) % 2, label |-> i % 2]

Datasets == {[i \in Rows |-> MakeRow(i, cs[i])] : cs \in [Rows -> CatVals]}

\* a model exposes predict and, optionally, predict_proba
\* (has_predict_proba is hasattr(model, 'predict_proba'))
DefaultModel ==
    [predict |-> [i \in Rows |-> i % 2], predict_proba |-> [i \in Rows |-> "hi"],
     has_predict_proba |-> TRUE]

ModelOf(levels) ==
    [predict |-> [i \in Rows |-> IF levels[i] = "hi" THEN i % 2 ELSE 1 - (i % 2)],
     predict_proba |-> levels, has_predict_proba |-> TRUE]

ModelsWithProba == {ModelOf(levels) : levels \in [Rows -> ProbaLevels]}

ModelWithoutProba == [DefaultModel EXCEPT !.has_predict_proba = FALSE]

Models == ModelsWithProba \cup {ModelWithoutProba}

Checks ==
    {[segment_by |-> sb, n_top_features |-> nt, segment_minimum_size_ratio |-> rt,
      n_samples |-> ns, score_per_sample |-> None] :
        sb \in {"properties", "metadata"}, nt \in {1, 2}, rt \in Ratios,
        ns \in {0, MaxRows - 1, MaxRows}}

Contexts ==
    {[task_type |-> tt, is_multi_label |-> ml, random_state |-> sd,
      with_display |-> wd, model |-> DefaultModel] :
        tt \in TaskTypes, ml \in BOOLEAN, sd \in Seeds, wd \in BOOLEAN}

NoOutcome == [kind |-> "running", message |-> <<>>]

RunStart ==
    /\ pc = "validate"
    /\ calls = <<>>
    /\ seeds = <<>>
    /\ text_data = None
    /\ features = {}
    /\ cat_features = {}
    /\ encoded_dataset = None
    /\ score_per_sample = None
    /\ scoring = None
    /\ members = {}
    /\ weak_segments = None
    /\ outcome = NoOutcome
    /\ result = None

\* no weak-segments run is under way
WeakSegmentsIdle ==
    /\ dataset = None /\ check = None /\ context = None
    /\ pc = "idle"
    /\ calls = <<>> /\ seeds = <<>>
    /\ text_data = None /\ features = {} /\ cat_features = {}
    /\ encoded_dataset = None /\ score_per_sample = None /\ scoring = None
    /\ members = {} /\ weak_segments = None
    /\ outcome = NoOutcome /\ result = None
    /\ run = 0 /\ prev = None

\* no tabular base check exists
BaseChecksIdle == instance = None /\ call = None /\ n_runs = 0

\* no UserSessionDrift check exists
DriftIdle == drift_check = None /\ drift_eval = None

\* no ConflictingLabels check exists
LabelsIdle == labels_check = None /\ labels_run = None

\* no recommender Context exists
RecommenderIdle == rec_data = None /\ rec_contexts = None

\* no PredictionDrift test runs
DriftTestIdle == drift_test = None

Init ==
    /\ BaseChecksIdle
    /\ DriftIdle
    /\ LabelsIdle
    /\ RecommenderIdle
    /\ DriftTestIdle
    /\ dataset \in Datasets
    /\ \E c \in Checks, x \in Contexts :
          /\ x.is_multi_label => x.task_type = "text_classification"
          \* either the caller supplies score_per_sample, or the model is what scores
          /\ \/ \E s \in [Rows -> ScoreValues] :
                    /\ check = [c EXCEPT !.score_per_sample = s]
                    /\ context = x
             \/ \E m \in Models :
                    /\ check = c
                    /\ context = [x EXCEPT !.model = m]
    /\ RunStart
    /\ run = 1
    /\ prev = None

\* ------------------------------------------------------------ run_logic
\* an exception leaves run_logic: nothing is returned
Raise(cls, msg) ==
    /\ pc' = "done"
    /\ outcome' = [kind |-> cls, message |-> msg]
    /\ result' = None

\* (mutation: the multi-label rejection comes after the sampling)
Validate_Mutant ==
    /\ pc = "validate"
    /\ IF context.task_type = "token_classification"
       THEN /\ Raise("DeepchecksNotSupportedError", <<"token_classification">>)
            /\ UNCHANGED <<calls, text_data>>
       ELSE IF context.is_multi_label
       THEN /\ Raise("DeepchecksNotSupportedError", <<"multi_label">>)
            /\ calls' = calls \o <<"get_data_by_kind", "sample">>
            /\ text_data' = dataset
       ELSE /\ pc' = "sample"
            /\ UNCHANGED <<outcome, result, calls, text_data>>
    /\ UNCHANGED <<inputs, elsewhere, seeds, features, cat_features, encoded_dataset,
                   score_per_sample, scoring, members, weak_segments, run, prev>>

\* lines 53-54: the two task rejections, before anything else
Validate ==
    /\ pc = "validate"
    /\ IF context.task_type = "token_classification"
       THEN Raise("DeepchecksNotSupportedError", <<"token_classification">>)
       ELSE IF context.is_multi_label
       THEN Raise("DeepchecksNotSupportedError", <<"multi_label">>)
       ELSE /\ pc' = "sample"
            /\ UNCHANGED <<outcome, result>>
    /\ UNCHANGED <<inputs, elsewhere, calls, seeds, locals, run, prev>>

\* ---- TextData.sample(n_samples, random_state): a seeded choice of
\* min(n_samples, len) rows, returned as a copy in index order
SampleIndex(n_rows, n_samples, random_state) ==
    {((random_state + k) % n_rows) + 1 : k \in 0..(Min(n_samples, n_rows) - 1)}

\* (mutation: the sampling is done in place, on the caller's dataset)
Sample_Mutant ==
    /\ pc = "sample"
    /\ LET idx == SampleIndex(MaxRows, check.n_samples, context.random_state)
       IN /\ text_data' = [r \in idx |-> dataset[r]]
          /\ dataset' = [r \in idx |-> dataset[r]]
          /\ calls' = calls \o <<"get_data_by_kind", "sample">>
          /\ seeds' = Append(seeds, [step |-> "sample", seed |-> <<context.random_state>>])
    /\ pc' = "build"
    /\ UNCHANGED <<outcome, result>>
    /\ UNCHANGED <<check, context, elsewhere, features, cat_features, encoded_dataset,
                   score_per_sample, scoring, members, weak_segments, run, prev>>

\* lines 56-57; sample returns a copy, which is empty with n_samples = 0 (the
\* sibling check ConflictingLabels tests the sample it gets for emptiness)
Sample ==
    /\ pc = "sample"
    /\ LET idx == SampleIndex(MaxRows, check.n_samples, context.random_state)
       IN /\ text_data' = [r \in idx |-> dataset[r]]
          /\ calls' = calls \o <<"get_data_by_kind", "sample">>
          /\ seeds' = Append(seeds, [step |-> "sample", seed |-> <<context.random_state>>])
    /\ pc' = "build"
    /\ UNCHANGED <<outcome, result>>
    /\ UNCHANGED <<inputs, elsewhere, features, cat_features, encoded_dataset, score_per_sample,
                   scoring, members, weak_segments, run, prev>>

\* ---- get_relevant_data_table
\* (mutation: no column is ever dropped)
UsableColumns_Mutant(td) == ColumnSet

\* columns with a single distinct value are dropped (an empty sample set
\* leaves none); with no column left the builder raises a configuration error
UsableColumns(td) ==
    {c \in ColumnSet : \E r1, r2 \in DOMAIN td : td[r1][c] # td[r2][c]}

\* the candidate column sets the builder may return: all the usable columns, or,
\* when there are more than n_top_features of them, a random choice of
\* n_top_features columns (no seed reaches the builder: any choice can come out)
ColumnChoices(usable, n_top_features) ==
    IF Cardinality(usable) > n_top_features
    THEN {S \in SUBSET usable : Cardinality(S) = n_top_features}
    ELSE {usable}

\* lines 59-61
BuildFeatureTable ==
    /\ pc = "build"
    /\ calls' = Append(calls, "get_relevant_data_table")
    /\ LET usable == UsableColumns(text_data)
       IN IF usable = {}
          THEN /\ Raise("ConfigurationError", <<"no usable columns">>)
               /\ UNCHANGED <<features, cat_features, seeds>>
          ELSE /\ \E chosen \in ColumnChoices(usable, check.n_top_features) :
                     /\ features' = chosen
                     /\ cat_features' = chosen \cap CategoricalColumns
               /\ seeds' = IF Cardinality(usable) > check.n_top_features
                           THEN Append(seeds, [step |-> "column_subsample", seed |-> <<>>])
                           ELSE seeds
               /\ pc' = "encode"
               /\ UNCHANGED <<outcome, result>>
    /\ UNCHANGED <<inputs, elsewhere, text_data, encoded_dataset, score_per_sample, scoring,
                   members, weak_segments, run, prev>>

\* ---- _target_encode_categorical_features_fill_na(..., is_cat_label=True)
\* a categorical value becomes the mean label of its category, in 0.001
TargetStatistic(td, c, v) ==
    LET same == {r \in DOMAIN td : td[r][c] = v}
    IN (1000 * SumOver([r \in same |-> td[r].label], same)) \div Cardinality(same)

EncodedValue(td, cats, c, r) ==
    IF c \in cats THEN TargetStatistic(td, c, td[r][c]) ELSE td[r][c]

TargetEncode(td, feats, cats) ==
    [data |-> [r \in DOMAIN td |-> [c \in feats |-> EncodedValue(td, cats, c, r)]],
     features |-> SelectSeq(Columns, LAMBDA c : c \in feats),
     label_col |-> [r \in DOMAIN td |-> td[r].label]]

\* (mutation: the run goes from encoding straight to the search)
Encode_Mutant ==
    /\ pc = "encode"
    /\ encoded_dataset' = TargetEncode(text_data, features, cat_features)
    /\ calls' = Append(calls, "_target_encode_categorical_features_fill_na")
    /\ pc' = "search"
    /\ UNCHANGED <<inputs, elsewhere, seeds, text_data, features, cat_features, score_per_sample,
                   scoring, members, weak_segments, outcome, result, run, prev>>

\* lines 64-65
Encode ==
    /\ pc = "encode"
    /\ encoded_dataset' = TargetEncode(text_data, features, cat_features)
    /\ calls' = Append(calls, "_target_encode_categorical_features_fill_na")
    /\ pc' = "score"
    /\ UNCHANGED <<inputs, elsewhere, seeds, text_data, features, cat_features, score_per_sample,
                   scoring, members, weak_segments, outcome, result, run, prev>>

\* ---- the scoring stage
\* (mutation: the supplied scores are ignored)
ScoresProvided_Mutant(chk) == FALSE

\* line 66: a caller-supplied score_per_sample selects the provided-scores path
ScoresProvided(chk) == chk.score_per_sample # None

\* line 67: self.score_per_sample[list(features.index)]
IndexScores(supplied, index) == [r \in index |-> supplied[r]]

\* (mutation: the mean is truncated, not rounded)
MeanScore_Mutant(scores) == SumOver(scores, DOMAIN scores) \div Cardinality(DOMAIN scores)

\* line 69: round(score_per_sample.mean(), 3)
MeanScore(scores) == RoundDiv(SumOver(scores, DOMAIN scores), Cardinality(DOMAIN scores))

\* (mutation: the task type is not looked at)
IsTextClassification_Mutant(ctx) == TRUE

\* line 72: context.task_type == TaskType.TEXT_CLASSIFICATION
IsTextClassification(ctx) == ctx.task_type = "text_classification"

\* (mutation: the capability is not looked at)
HasPredictProba_Mutant(model) == TRUE

\* line 73: hasattr(context.model, 'predict_proba')
HasPredictProba(model) == model.has_predict_proba

\* calculate_neg_cross_entropy_per_sample: the log of the probability the model
\* gives to the true class (0.75 for "hi", 0.25 for "lo"), in 0.001
NegCrossEntropy(level) == IF level = "hi" THEN 0 - 288 ELSE 0 - 1386

NegCrossEntropyPerSample(y_proba, index) == [r \in index |-> NegCrossEntropy(y_proba[r])]

\* lines 84-85: _DummyModel(test=encoded_dataset, y_pred_test=..., y_proba_test=...)
DummyModel(predictions, y_proba) == [y_pred |-> predictions, y_proba |-> y_proba]

\* context.get_single_scorer(alternative_scorer): the default scorer of a
\* classification task, the share of samples the model predicts right
Scorer(dummy_model, encoded) ==
    LET index == DOMAIN encoded.data
        right == {r \in index : dummy_model.y_pred[r] = encoded.label_col[r]}
    IN RoundDiv(1000 * Cardinality(right), Cardinality(index))

\* lines 66-87
Score ==
    /\ pc = "score"
    /\ LET index == DOMAIN encoded_dataset.data
       IN IF ScoresProvided(check)
          THEN /\ score_per_sample' = IndexScores(check.score_per_sample, index)
               /\ scoring' = [path |-> "provided", scorer |-> "None", dummy_model |-> None,
                              avg_score |-> MeanScore(score_per_sample')]
               /\ pc' = "search"
               /\ UNCHANGED <<calls, outcome, result>>
          ELSE LET predictions == [r \in index |-> context.model.predict[r]]
               IN IF IsTextClassification(context)
                  THEN IF ~HasPredictProba(context.model)
                       THEN /\ calls' = Append(calls, "predict")
                            /\ Raise("DeepchecksNotSupportedError",
                                     <<"Predicted probabilities not supplied">>)
                            /\ UNCHANGED <<score_per_sample, scoring>>
                       ELSE LET y_proba == [r \in index |-> context.model.predict_proba[r]]
                                dummy_model == DummyModel(predictions, y_proba)
                            IN /\ score_per_sample' = NegCrossEntropyPerSample(y_proba, index)
                               /\ scoring' = [path |-> "model", scorer |-> "scorer",
                                              dummy_model |-> dummy_model,
                                              avg_score |-> Scorer(dummy_model, encoded_dataset)]
                               /\ calls' = calls \o <<"predict", "predict_proba",
                                             "calculate_neg_cross_entropy_per_sample",
                                             "_DummyModel", "get_single_scorer", "scorer">>
                               /\ pc' = "search"
                               /\ UNCHANGED <<outcome, result>>
                  ELSE /\ calls' = Append(calls, "predict")
                       /\ Raise("DeepchecksNotSupportedError",
                                <<"Weak segments performance check is not supported for",
                                  context.task_type>>)
                       /\ UNCHANGED <<score_per_sample, scoring>>
    /\ UNCHANGED <<inputs, elsewhere, seeds, text_data, features, cat_features, encoded_dataset,
                   members, weak_segments, run, prev>>

\* ---- the segment search (_weak_segments_search)
\* the predicates a shallow tree can split column c on
Predicates(data, c) ==
    LET values == {data[r][c] : r \in DOMAIN data}
        thresholds == {v \in values : \E w \in values : w > v}
    IN {[col |-> c, op |-> o, t |-> t] : o \in {"le", "gt"}, t \in thresholds}

Satisfies(row, p) == IF p.op = "le" THEN row[p.col] <= p.t ELSE row[p.col] > p.t

\* the leaves of a tree over the columns S: one predicate per column of S
Leaves(data, S) ==
    LET preds == UNION {Predicates(data, c) : c \in S}
    IN {P \in SUBSET preds : /\ Cardinality(P) = Cardinality(S)
                             /\ \A c \in S : \E p \in P : p.col = c}

\* a segment: its predicates, its samples, its size and the sum of their scores
\* (its score is total / size)
SegmentOf(data, scores, P) ==
    LET rows == {r \in DOMAIN data : \A p \in P : Satisfies(data[r], p)}
    IN [preds |-> P, rows |-> rows, size |-> Cardinality(rows),
        total |-> SumOver(scores, rows)]

\* (mutation: any non-empty leaf is kept)
LargeEnough_Mutant(size, n, ratio) == size > 0

\* a leaf is kept only with at least segment_minimum_size_ratio * N samples
LargeEnough(size, n, ratio) == size * ratio[2] >= ratio[1] * n

\* segments with the same samples are one segment: the one with the fewest
\* predicates is kept
Deduplicate(segs) ==
    {s \in segs :
        s = CHOOSE u \in {v \in segs : v.rows = s.rows} :
                \A v \in segs : v.rows = s.rows => Cardinality(u.preds) <= Cardinality(v.preds)}

\* (mutation: among equally weak segments the smaller one goes first)
RanksBefore_Mutant(a, b) ==
    \/ a.total * b.size < b.total * a.size
    \/ /\ a.total * b.size = b.total * a.size
       /\ a.size < b.size

\* a goes before b in the ranking: a is weaker (global average minus segment
\* score is larger, that is a's score is lower), or as weak and larger
RanksBefore(a, b) ==
    \/ a.total * b.size < b.total * a.size
    \/ /\ a.total * b.size = b.total * a.size
       /\ a.size > b.size

RECURSIVE RankSegments(_)
RankSegments(segs) ==
    IF segs = {} THEN <<>>
    ELSE LET first == CHOOSE s \in segs : \A u \in segs : ~RanksBefore(u, s)
         IN <<first>> \o RankSegments(segs \ {first})

\* the feature subsets an ensemble member can be trained on (1 or 2 columns)
FeatureSubsets(feats) == {S \in SUBSET feats : Cardinality(S) \in {1, 2}}

WeakSegmentsSearch(data, scores, ensemble, ratio) ==
    LET n == Cardinality(DOMAIN data)
        leaves == UNION {Leaves(data, S) : S \in ensemble}
        candidates == {SegmentOf(data, scores, P) : P \in leaves}
        valid == {s \in candidates : LargeEnough(s.size, n, ratio)}
    IN RankSegments(Deduplicate(valid))

\* (mutation: an empty list is let through)
SearchFailed_Mutant(segments) == FALSE

\* line 95: len(weak_segments) == 0
SearchFailed(segments) == Len(segments) = 0

\* lines 90-97: every member of the ensemble considers a random subset of the
\* features; no seed is handed to the search, so any ensemble can come out
Search ==
    /\ pc = "search"
    /\ \E ensemble \in (SUBSET FeatureSubsets(features)) \ {{}} :
          /\ members' = ensemble
          /\ weak_segments' = WeakSegmentsSearch(encoded_dataset.data, score_per_sample,
                                  ensemble, check.segment_minimum_size_ratio)
    /\ calls' = Append(calls, "_weak_segments_search")
    /\ seeds' = Append(seeds, [step |-> "search", seed |-> <<>>])
    /\ IF SearchFailed(weak_segments')
       THEN Raise("DeepchecksProcessError",
                  <<"Try increasing n_samples or supply more", check.segment_by>>)
       ELSE /\ pc' = "format"
            /\ UNCHANGED <<outcome, result>>
    /\ UNCHANGED <<inputs, elsewhere, text_data, features, cat_features, encoded_dataset,
                   score_per_sample, scoring, run, prev>>

\* ---- the result
\* _create_heatmap_display: the heatmap over the columns of the weakest segment
HeatmapDisplay(segments, avg_score) ==
    <<[columns |-> {p.col : p \in segments[1].preds}, avg_score |-> avg_score]>>

\* _generate_check_result_value(weak_segments, cat_features, avg_score)
CheckResultValue(segments, cats, avg_score) ==
    [weak_segments |-> [i \in 1..Len(segments) |->
                           [preds |-> segments[i].preds, size |-> segments[i].size,
                            total |-> segments[i].total]],
     avg_score |-> avg_score]

\* (mutation: the heatmap is built whatever the display mode)
WithDisplay_Mutant(ctx) == TRUE

\* line 99
WithDisplay(ctx) == ctx.with_display

\* lines 99-111
Format ==
    /\ pc = "format"
    /\ LET display == IF WithDisplay(context)
                      THEN HeatmapDisplay(weak_segments, scoring.avg_score)
                      ELSE <<>>
       IN /\ calls' = calls \o (IF WithDisplay(context)
                                THEN <<"_create_heatmap_display">> ELSE <<>>)
                            \o <<"_generate_check_result_value">>
          /\ result' = [value |-> CheckResultValue(weak_segments, cat_features,
                                                   scoring.avg_score),
                        display |-> [display_msg |-> check.segment_by,
                                     display_map |-> display]]
    /\ outcome' = [kind |-> "CheckResult", message |-> <<>>]
    /\ pc' = "done"
    /\ UNCHANGED <<inputs, elsewhere, seeds, locals, run, prev>>

\* ---- a second run of the same check on the same inputs
Rerun ==
    /\ pc = "done"
    /\ run = 1
    /\ run' = 2
    /\ prev' = [outcome |-> outcome, result |-> result]
    /\ pc' = "validate"
    /\ calls' = <<>>
    /\ seeds' = <<>>
    /\ text_data' = None
    /\ features' = {}
    /\ cat_features' = {}
    /\ encoded_dataset' = None
    /\ score_per_sample' = None
    /\ scoring' = None
    /\ members' = {}
    /\ weak_segments' = None
    /\ outcome' = NoOutcome
    /\ result' = None
    /\ UNCHANGED <<inputs, elsewhere>>

Next ==
    \/ Validate
    \/ Sample
    \/ BuildFeatureTable
    \/ Encode
    \/ Score
    \/ Search
    \/ Format

Spec == Init /\ [][Next]_vars

\* two runs in a row on the same check, context and data
NextTwoRuns ==
    \/ Next
    \/ Rerun

SpecTwoRuns == Init /\ [][NextTwoRuns]_vars

\* ------------------------------------------- tabular base checks: run()
\* deepchecks/tabular/base_checks.py: the run methods of the four base checks
CheckClasses == {"SingleDatasetCheck", "TrainTestCheck", "ModelOnlyCheck",
                 "ModelComparisonCheck"}

\* the two whose run takes datasets, item_dataset and model_classes
DatasetCheckClasses == {"SingleDatasetCheck", "TrainTestCheck"}

\* dataset.label_type: TaskType.RECOMMENDETION or a tabular task
LabelTypes == {"recommendation", "binary"}

\* context_type of the class (None in both base classes, a subclass may declare
\* its own) and the values self.context_type takes
NoContextType == "None"
DeclaredContextTypes == {NoContextType, "CustomContext"}

\* lines 43, 149: None, or what a subclass declares; line 229: Context, or what
\* a subclass declares (None included); ModelComparisonCheck has no such
\* attribute and always builds a ModelComparisonContext (line 298)
DeclaredFor(cls) ==
    IF cls \in DatasetCheckClasses THEN DeclaredContextTypes
    ELSE IF cls = "ModelOnlyCheck" THEN {"Context", NoContextType}
    ELSE {"ModelComparisonContext"}

\* the arguments of a call that the validation reads; TRUE stands for an
\* argument that is not None
RunArgs(cls) ==
    IF cls = "SingleDatasetCheck"
    THEN [label_type : LabelTypes, item_dataset : BOOLEAN, model_classes : BOOLEAN,
          y_pred : BOOLEAN, y_pred_train : BOOLEAN,
          y_proba : BOOLEAN, y_proba_train : BOOLEAN]
    ELSE IF cls = "TrainTestCheck"
    THEN [label_type : LabelTypes, item_dataset : BOOLEAN, model_classes : BOOLEAN,
          y_pred : {FALSE}, y_pred_train : BOOLEAN,
          y_proba : {FALSE}, y_proba_train : BOOLEAN]
    ELSE IF cls = "ModelOnlyCheck"
    THEN [label_type : {"none"}, item_dataset : {FALSE}, model_classes : {FALSE},
          y_pred : {FALSE}, y_pred_train : BOOLEAN,
          y_proba : {FALSE}, y_proba_train : BOOLEAN]
    ELSE [label_type : {"binary"}, item_dataset : {FALSE}, model_classes : {FALSE},
          y_pred : {FALSE}, y_pred_train : {FALSE},
          y_proba : {FALSE}, y_proba_train : {FALSE}]

InitRun ==
    /\ WeakSegmentsIdle
    /\ DriftIdle
    /\ LabelsIdle
    /\ RecommenderIdle
    /\ DriftTestIdle
    /\ \E cls \in CheckClasses :
          \E d \in DeclaredFor(cls) :
              instance = [cls |-> cls, declared |-> d, context_type |-> d]
    /\ call = None
    /\ n_runs = 0

\* run(...) is called on the instance
RunCall ==
    /\ n_runs < MaxRuns
    /\ IF call = None THEN TRUE ELSE call.pc = "done"
    /\ \E a \in RunArgs(instance.cls) :
          call' = [args |-> a, pc |-> "validate", context |-> None, log |-> <<>>,
                   outcome |-> [kind |-> "running", message |-> ""]]
    /\ n_runs' = n_runs + 1
    /\ UNCHANGED <<instance, outside_base>>

RunRaise(cls, msg) ==
    call' = [call EXCEPT !.pc = "done", !.outcome = [kind |-> cls, message |-> msg]]

\* (mutation: item_dataset is let through for every dataset)
ItemDatasetUnsupported_Mutant(a) == FALSE

\* lines 83, 180
ItemDatasetUnsupported(a) == a.label_type # "recommendation" /\ a.item_dataset

\* lines 86, 183
ModelClassesUnsupported(a) == a.label_type = "recommendation" /\ a.model_classes

\* line 91
BothPredSupplied(a) == a.y_pred_train /\ a.y_pred

\* line 96: the test that guards the y_proba_train / y_proba message
BothProbaSupplied(a) == a.y_pred_train /\ a.y_pred

\* lines 83-98 (SingleDatasetCheck), 180-184 (TrainTestCheck), 252
\* (ModelOnlyCheck: assert self.context_type is not None)
RunValidate ==
    /\ call # None
    /\ call.pc = "validate"
    /\ LET a == call.args
       IN IF instance.cls = "ModelOnlyCheck" /\ instance.context_type = NoContextType
          THEN RunRaise("AssertionError", "")
          ELSE IF ItemDatasetUnsupported(a)
          THEN RunRaise("DeepchecksNotSupportedError",
                        "item_dataset is not supported for tabular datasets.")
          ELSE IF ModelClassesUnsupported(a)
          THEN RunRaise("DeepchecksNotSupportedError",
                        "model_classes is not supported for recommendation datasets.")
          ELSE IF instance.cls = "SingleDatasetCheck" /\ BothPredSupplied(a)
          THEN RunRaise("DeepchecksValueError", "Cannot accept both y_pred_train and y_pred")
          ELSE IF instance.cls = "SingleDatasetCheck" /\ BothProbaSupplied(a)
          THEN RunRaise("DeepchecksValueError", "Cannot accept both y_proba_train and y_proba")
          ELSE call' = [call EXCEPT !.pc = "context"]
    /\ UNCHANGED <<instance, n_runs, outside_base>>

\* the context class of lines 108-121 and 186-200: self.context_type is
\* assigned on the instance and then called; ModelOnlyCheck calls what
\* self.context_type holds (line 253), ModelComparisonCheck its own (line 298)
ContextTypeFor(inst, a) ==
    IF inst.cls = "ModelComparisonCheck" THEN "ModelComparisonContext"
    ELSE IF a.label_type = "recommendation" THEN "RecContext"
    ELSE IF inst.context_type # NoContextType THEN inst.context_type
    ELSE "Context"

\* lines 105-132, 186-214, 253-263, 298: the constructor of the context class
\* may raise
RunBuildContext ==
    /\ call # None
    /\ call.pc = "context"
    /\ LET a == call.args
           ct == ContextTypeFor(instance, a)
       IN /\ instance' = [instance EXCEPT !.context_type = ct]
          /\ \/ call' = [call EXCEPT
                            !.pc = "run_logic",
                            !.log = Append(@, "context"),
                            !.context = [type |-> ct,
                                         y_pred_train |-> a.y_pred_train \/ a.y_pred,
                                         y_proba_train |-> a.y_proba_train \/ a.y_proba]]
             \/ RunRaise("DeepchecksValueError", "context")
    /\ UNCHANGED <<n_runs, outside_base>>

\* lines 133, 216: run_logic is the subclass's; it returns a result or raises
RunLogic ==
    /\ call # None
    /\ call.pc = "run_logic"
    /\ \/ call' = [call EXCEPT !.pc = "finalize", !.log = Append(@, "run_logic")]
       \/ call' = [call EXCEPT !.pc = "done", !.log = Append(@, "run_logic"),
                               !.outcome = [kind |-> "DeepchecksBaseError",
                                            message |-> "run_logic"]]
    /\ UNCHANGED <<instance, n_runs, outside_base>>

\* (mutation: the result is returned without finalize_check_result)
RunFinalize_Mutant ==
    /\ call # None
    /\ call.pc = "finalize"
    /\ call' = [call EXCEPT !.pc = "done",
                            !.outcome = [kind |-> "CheckResult", message |-> ""]]
    /\ UNCHANGED <<instance, n_runs, outside_base>>

\* lines 134-135, 217-218, 265-266, 300-301
RunFinalize ==
    /\ call # None
    /\ call.pc = "finalize"
    /\ call' = [call EXCEPT !.pc = "done", !.log = Append(@, "finalize_check_result"),
                            !.outcome = [kind |-> "CheckResult", message |-> ""]]
    /\ UNCHANGED <<instance, n_runs, outside_base>>

NextBaseChecks ==
    \/ RunCall
    \/ RunValidate
    \/ RunBuildContext
    \/ RunLogic
    \/ RunFinalize

SpecBaseChecks == InitRun /\ [][NextBaseChecks]_vars

\* ------------------------------------------------- UserSessionDrift
\* deepchecks/recommender/checks/user_session_length_drift.py
\* Python's None, as opposed to the string 'none'
NoAggregation == "None"

\* values the caller may pass as aggregation_method
AggregationMethods == {"weighted", "mean", "max", "none", NoAggregation, "l2", "median"}

\* drift scores and thresholds, in units of 0.05
DriftScores == 0..MaxDriftScore

\* line 63
AcceptedAggregation(m) == m \in {"weighted", "mean", "none", NoAggregation, "max"}

InitDrift ==
    /\ WeakSegmentsIdle
    /\ BaseChecksIdle
    /\ LabelsIdle
    /\ RecommenderIdle
    /\ DriftTestIdle
    /\ DriftIdle

\* lines 32-64: UserSessionDrift(aggregation_method = m)
DriftConstruct ==
    /\ drift_check = None
    /\ \E m \in AggregationMethods :
          drift_check' =
              [aggregation_method |-> m,
               conditions |-> <<>>,
               raised |-> IF AcceptedAggregation(m) THEN "" ELSE "DeepchecksValueError"]
    /\ UNCHANGED <<drift_eval, outside_drift>>

\* line 136
ConditionCategory(result_value, max_allowed_score) ==
    IF result_value > max_allowed_score THEN "FAIL" ELSE "PASS"

\* lines 113, 139: add_condition_drift_score_less_than(max_allowed_score)
DriftAddCondition ==
    /\ drift_check # None
    /\ drift_check.raised = ""
    /\ Len(drift_check.conditions) < MaxConditions
    /\ \E m \in DriftScores :
          drift_check' = [drift_check EXCEPT !.conditions = Append(@, m)]
    /\ UNCHANGED <<drift_eval, outside_drift>>

\* lines 135-137: a condition of the check is applied to a result value
DriftCondition ==
    /\ drift_check # None
    /\ \E i \in 1..Len(drift_check.conditions), r \in DriftScores :
          drift_eval' = [max_allowed_score |-> drift_check.conditions[i],
                         result |-> r,
                         category |-> ConditionCategory(r, drift_check.conditions[i])]
    /\ UNCHANGED <<drift_check, outside_drift>>

NextDrift ==
    \/ DriftConstruct
    \/ DriftAddCondition
    \/ DriftCondition

SpecDrift == InitDrift /\ [][NextDrift]_vars

\* ------------------------------------------------- ConflictingLabels
\* deepchecks/nlp/checks/data_integrity/conflicting_labels.py
LabelsRows == 1..MaxTexts

\* a text is a sequence of characters
TextValues == {<<"a">>, <<"A">>, <<"b", "b">>}

LabelsTasks == {[task_type |-> "text_classification", is_multi_label |-> FALSE],
                [task_type |-> "text_classification", is_multi_label |-> TRUE],
                [task_type |-> "token_classification", is_multi_label |-> FALSE],
                [task_type |-> "other", is_multi_label |-> FALSE]}

\* the set in ascending order
RECURSIVE SortedSeq(_)
SortedSeq(S) ==
    IF S = {} THEN <<>>
    ELSE LET m == CHOOSE x \in S : \A y \in S : x <= y
         IN <<m>> \o SortedSeq(S \ {m})

\* ---- normalize_samples(text, ignore_case=...): case folding
Lower(ch) == IF ch = "A" THEN "a" ELSE ch

NormalizeText(t, ignore_case) ==
    IF ignore_case THEN [i \in 1..Len(t) |-> Lower(t[i])] ELSE t

\* ---- hash_samples: a hash of the characters of the normalized text
CharCode(ch) == IF ch = "a" THEN 1 ELSE IF ch = "b" THEN 2 ELSE 3

RECURSIVE HashText(_)
HashText(t) ==
    IF t = <<>> THEN 7 ELSE (31 * HashText(SubSeq(t, 1, Len(t) - 1)) + CharCode(t[Len(t)])) % 1009

\* truncate_string(x, max_length)
TruncateText(t, max_length) ==
    IF Len(t) > max_length THEN SubSeq(t, 1, max_length) \o <<"...">> ELSE t

LabelsRunStart ==
    [pc |-> "sample", calls |-> <<>>, dataset |-> None, samples_hashes |-> None,
     labels |-> None, outcome |-> [kind |-> "running", message |-> ""],
     value |-> None, display |-> None]

\* the first row carries label 0: the datasets with the two labels exchanged
\* are left out
InitLabels ==
    /\ WeakSegmentsIdle
    /\ BaseChecksIdle
    /\ DriftIdle
    /\ RecommenderIdle
    /\ DriftTestIdle
    /\ \E rows \in {rs \in [LabelsRows -> [text : TextValues, label : Labels]] :
                        rs[1].label = 0},
          task \in LabelsTasks,
          self \in [ignore_case : BOOLEAN, n_to_show : {1, 2},
                    n_samples : {0, MaxTexts - 1, MaxTexts}, random_state : {0},
                    max_text_length_for_display : {1}],
          with_display \in BOOLEAN :
          labels_check = [self |-> self,
                          context |-> [with_display |-> with_display],
                          dataset |-> [rows |-> rows, task_type |-> task.task_type,
                                       is_multi_label |-> task.is_multi_label]]
    /\ labels_run = LabelsRunStart

LabelsRaise(msg) ==
    labels_run' = [labels_run EXCEPT !.pc = "done",
                                     !.outcome = [kind |-> "DeepchecksValueError",
                                                  message |-> msg]]

\* (mutation: an empty sample is let through)
IsEmptySample_Mutant(n_of_samples) == FALSE

\* line 91
IsEmptySample(n_of_samples) == n_of_samples = 0

\* lines 86-92
LabelsSample ==
    /\ labels_run # None
    /\ labels_run.pc = "sample"
    /\ LET idx == SampleIndex(MaxTexts, labels_check.self.n_samples,
                              labels_check.self.random_state)
           sampled == [r \in idx |-> labels_check.dataset.rows[r]]
       IN IF IsEmptySample(Cardinality(idx))
          THEN labels_run' = [labels_run EXCEPT
                                 !.pc = "done",
                                 !.calls = @ \o <<"get_data_by_kind", "sample">>,
                                 !.dataset = sampled,
                                 !.outcome = [kind |-> "DeepchecksValueError",
                                              message |-> "Dataset cannot be empty"]]
          ELSE labels_run' = [labels_run EXCEPT
                                 !.pc = "hash",
                                 !.calls = @ \o <<"get_data_by_kind", "sample">>,
                                 !.dataset = sampled]
    /\ UNCHANGED <<labels_check, outside_labels>>

\* lines 94-97
LabelsHash ==
    /\ labels_run # None
    /\ labels_run.pc = "hash"
    /\ labels_run' =
          [labels_run EXCEPT
              !.pc = "labels",
              !.calls = @ \o <<"normalize_samples", "hash_samples">>,
              !.samples_hashes =
                  [r \in DOMAIN labels_run.dataset |->
                      HashText(NormalizeText(labels_run.dataset[r].text,
                                             labels_check.self.ignore_case))]]
    /\ UNCHANGED <<labels_check, outside_labels>>

\* lines 99-104: token and multi-label labels are sequences, turned into tuples
LabelsLabels ==
    /\ labels_run # None
    /\ labels_run.pc = "labels"
    /\ LET d == labels_check.dataset
       IN IF d.task_type = "token_classification" \/ d.is_multi_label
          THEN labels_run' = [labels_run EXCEPT
                                 !.pc = "group",
                                 !.labels = [r \in DOMAIN labels_run.dataset |->
                                                <<labels_run.dataset[r].label>>]]
          ELSE IF d.task_type = "text_classification"
          THEN labels_run' = [labels_run EXCEPT
                                 !.pc = "group",
                                 !.labels = [r \in DOMAIN labels_run.dataset |->
                                                labels_run.dataset[r].label]]
          ELSE LabelsRaise("Unknow task type")
    /\ UNCHANGED <<labels_check, outside_labels>>

\* (mutation: a hash with a single label counts as ambiguous too)
IsAmbiguous_Mutant(n_of_labels) == n_of_labels >= 1

\* line 116
IsAmbiguous(n_of_labels) == n_of_labels > 1

\* lines 113-117: the hashes whose rows carry more than one distinct label
AmbiguousHashes(hashes, labels) ==
    {h \in {hashes[r] : r \in DOMAIN hashes} :
        IsAmbiguous(Cardinality({labels[r] : r \in {q \in DOMAIN hashes : hashes[q] = h}}))}

\* to_ordional_enumeration: the hashes numbered in the order they first appear
OrdinalOf(h, ids, hashes) ==
    LET first == CHOOSE i \in 1..Len(ids) :
                     /\ hashes[ids[i]] = h
                     /\ \A j \in 1..(i - 1) : hashes[ids[j]] # h
    IN Cardinality({hashes[ids[j]] : j \in 1..(first - 1)}) + 1

\* lines 119-132
LabelsValue(data, hashes, labels) ==
    LET ambiguous == AmbiguousHashes(hashes, labels)
        ids == SortedSeq({r \in DOMAIN data : hashes[r] \in ambiguous})
    IN [percent_of_conflicting_samples |-> [num |-> Len(ids), den |-> Cardinality(DOMAIN data)],
        conflicting_samples |->
            [i \in 1..Len(ids) |->
                [duplicate |-> OrdinalOf(hashes[ids[i]], ids, hashes),
                 sample_id |-> ids[i],
                 label |-> labels[ids[i]],
                 text |-> data[ids[i]].text]]]

\* lines 106-132
LabelsGroup ==
    /\ labels_run # None
    /\ labels_run.pc = "group"
    /\ labels_run' = [labels_run EXCEPT
                         !.pc = "display",
                         !.value = LabelsValue(labels_run.dataset, labels_run.samples_hashes,
                                               labels_run.labels)]
    /\ UNCHANGED <<labels_check, outside_labels>>

\* lines 137-156: one row per ambiguous hash, in hash order, with the labels
\* and ids of its samples and the truncated text of the first of them
DisplayTable(data, hashes, labels, max_length) ==
    LET groups == SortedSeq(AmbiguousHashes(hashes, labels))
    IN [g \in 1..Len(groups) |->
           LET ids == SortedSeq({r \in DOMAIN data : hashes[r] = groups[g]})
           IN [observed_labels |-> [i \in 1..Len(ids) |-> labels[ids[i]]],
               sample_ids |-> ids,
               text |-> TruncateText(data[ids[1]].text, max_length)]]

\* (mutation: no note when n_to_show equals the number of rows)
TableNote_Mutant(n_to_show, table_length) ==
    IF n_to_show < table_length THEN [top |-> n_to_show, of |-> table_length] ELSE None

\* lines 161-165
TableNote(n_to_show, table_length) ==
    IF n_to_show <= table_length THEN [top |-> n_to_show, of |-> table_length] ELSE None

\* (mutation: the truncation of line 137 reaches the table of the value)
LabelsDisplay_Mutant ==
    /\ labels_run # None
    /\ labels_run.pc = "display"
    /\ LET table == DisplayTable(labels_run.dataset, labels_run.samples_hashes,
                                 labels_run.labels,
                                 labels_check.self.max_text_length_for_display)
           n == labels_check.self.n_to_show
           shown == labels_run.value.conflicting_samples
       IN labels_run' =
             [labels_run EXCEPT
                 !.pc = "done",
                 !.outcome = [kind |-> "CheckResult", message |-> ""],
                 !.value = IF labels_check.context.with_display
                           THEN [@ EXCEPT !.conflicting_samples =
                                    [i \in 1..Len(shown) |->
                                        [shown[i] EXCEPT !.text =
                                            TruncateText(@, labels_check.self.max_text_length_for_display)]]]
                           ELSE @,
                 !.display = IF labels_check.context.with_display
                             THEN [table_note |-> TableNote(n, Len(table)),
                                   display_table |-> SubSeq(table, 1, Min(n, Len(table)))]
                             ELSE None]
    /\ UNCHANGED <<labels_check, outside_labels>>

\* lines 134-174
LabelsDisplay ==
    /\ labels_run # None
    /\ labels_run.pc = "display"
    /\ LET table == DisplayTable(labels_run.dataset, labels_run.samples_hashes,
                                 labels_run.labels,
                                 labels_check.self.max_text_length_for_display)
           n == labels_check.self.n_to_show
       IN labels_run' =
             [labels_run EXCEPT
                 !.pc = "done",
                 !.outcome = [kind |-> "CheckResult", message |-> ""],
                 !.display = IF labels_check.context.with_display
                             THEN [table_note |-> TableNote(n, Len(table)),
                                   display_table |-> SubSeq(table, 1, Min(n, Len(table)))]
                             ELSE None]
    /\ UNCHANGED <<labels_check, outside_labels>>

NextLabels ==
    \/ LabelsSample
    \/ LabelsHash
    \/ LabelsLabels
    \/ LabelsGroup
    \/ LabelsDisplay

SpecLabels == InitLabels /\ [][NextLabels]_vars

\* ------------------------------------------------- recommender Context
\* deepchecks/recommender/context.py: _DummyModel.__init__, Context
RecRows == 1..MaxRecRows

ContextIds == {1, 2}

\* an optional value that is set: a list or a dict, empty ones included
Some(v) == <<v>>

\* a label cell is a sequence of items; in a column of scalars it has one
\* element, and 0 stands for a missing label
LabelCells(is_sequence) ==
    IF is_sequence THEN {<<1>>, <<1, 2>>, <<2, 2>>} ELSE {<<0>>, <<1>>, <<2>>}

\* an index value is what it prints as: a prefix and the original key
IndexFrom(offset) == [i \in RecRows |-> <<"", i + offset>>]

\* the test dataset, when there is one, has the same keys as the train
\* dataset, some of them, or none of them; InitRec takes test datasets with
\* one label cell throughout
RecDatasets(is_sequence, offsets) ==
    {[index |-> IndexFrom(o), label |-> l] :
        o \in offsets, l \in [RecRows -> LabelCells(is_sequence)]}

InitRec ==
    /\ WeakSegmentsIdle
    /\ BaseChecksIdle
    /\ DriftIdle
    /\ LabelsIdle
    /\ DriftTestIdle
    /\ \E is_sequence \in BOOLEAN, with_train_pred \in BOOLEAN, with_test_pred \in BOOLEAN :
          \E train \in RecDatasets(is_sequence, {0}) :
              \/ \E test \in {ds \in RecDatasets(is_sequence, {0, 1, MaxRecRows}) :
                                    \A i \in RecRows : ds.label[i] = ds.label[1]} :
                     rec_data = [train |-> train, test |-> test,
                                 label_is_sequence |-> is_sequence,
                                 y_pred_train |-> IF with_train_pred
                                                  THEN [i \in RecRows |-> 10 + i] ELSE None,
                                 y_pred_test |-> IF with_test_pred
                                                 THEN [i \in RecRows |-> 20 + i] ELSE None]
              \/ rec_data = [train |-> train, test |-> None,
                             label_is_sequence |-> is_sequence,
                             y_pred_train |-> IF with_train_pred
                                              THEN [i \in RecRows |-> 10 + i] ELSE None,
                             y_pred_test |-> None]
    /\ rec_contexts = [c \in ContextIds |-> None]

IndexSet(ds) == {ds.index[i] : i \in DOMAIN ds.index}

\* (mutation: the indexes are never found to overlap)
IndexesShared_Mutant(train, test) == FALSE

\* lines 61-63: set(train.data.index) & set(test.data.index)
IndexesShared(train, test) ==
    IF test = None THEN FALSE ELSE IndexSet(train) \cap IndexSet(test) # {}

\* lines 64-65: f'train-{x}', f'test-{x}'
PrefixIndex(prefix, v) == <<prefix \o v[1], v[2]>>

PrefixDataset(prefix, ds) ==
    [ds EXCEPT !.index = [i \in DOMAIN ds.index |-> PrefixIndex(prefix, ds.index[i])]]

\* lines 73-79: pd.Series(y_pred, index=dataset.data.index)
PredictionSeries(ds, y_pred) ==
    IF ds = None \/ y_pred = None THEN <<>>
    ELSE [i \in DOMAIN ds.index |-> [key |-> ds.index[i], value |-> y_pred[i]]]

\* lines 54-86: the datasets as __init__ leaves them, and the model
DummyModelInit(data) ==
    LET shared == IndexesShared(data.train, data.test)
        train == IF shared THEN PrefixDataset("train-", data.train) ELSE data.train
        test == IF shared THEN PrefixDataset("test-", data.test) ELSE data.test
        predictions == PredictionSeries(train, data.y_pred_train)
                          \o PredictionSeries(test, data.y_pred_test)
    IN [train |-> train, test |-> test,
        model |-> [predictions |-> IF predictions = <<>> THEN None ELSE Some(predictions),
                   has_predict |-> predictions # <<>>]]

\* lines 224-249: Context(train, test, y_pred_train, y_pred_test)
RecNewContext ==
    /\ rec_contexts # None
    /\ \E c \in ContextIds :
          /\ rec_contexts[c] = None
          /\ LET built == DummyModelInit(rec_data)
             IN /\ rec_data' = [rec_data EXCEPT !.train = built.train, !.test = built.test]
                /\ rec_contexts' =
                      [rec_contexts EXCEPT ![c] =
                          [model |-> built.model,
                           _observed_classes |-> None,
                           _item_popularity |-> None,
                           popularity_computed |-> 0,
                           popularity_accesses |-> 0,
                           returned |-> None]]
    /\ UNCHANGED outside_rec

\* lines 337-340: the labels of the train label column, flattened when the
\* column holds sequences
TrainLabels(data) ==
    LET col == data.train.label
    IN IF data.label_is_sequence
       THEN UNION {{<<i, j>> : j \in DOMAIN col[i]} : i \in DOMAIN col}
       ELSE {<<i, 1>> : i \in DOMAIN col}

LabelAt(data, at) == data.train.label[at[1]][at[2]]

\* line 341: sorted(pd.Series(labels).dropna().unique().tolist())
ObservedClassesOf(data) ==
    SortedSeq({LabelAt(data, at) : at \in TrainLabels(data)} \ {0})

\* lines 353-357: value_counts(ascending=False).to_dict()
ItemPopularityOf(data) ==
    LET items == {LabelAt(data, at) : at \in TrainLabels(data)} \ {0}
    IN [item \in items |->
            Cardinality({at \in TrainLabels(data) : LabelAt(data, at) = item})]

\* lines 335-342: context.observed_classes
RecObservedClasses ==
    /\ rec_contexts # None
    /\ \E c \in ContextIds :
          /\ rec_contexts[c] # None
          /\ LET self == rec_contexts[c]
                 cached == IF self._observed_classes = None
                           THEN Some(ObservedClassesOf(rec_data))
                           ELSE self._observed_classes
             IN rec_contexts' =
                    [rec_contexts EXCEPT ![c] =
                        [self EXCEPT !._observed_classes = cached,
                                     !.returned = [property |-> "observed_classes",
                                                   value |-> cached[1]]]]
    /\ UNCHANGED <<rec_data, outside_rec>>

\* (mutation: the cached mapping is never found)
PopularityMissing_Mutant(self) == TRUE

\* line 352
PopularityMissing(self) == self._item_popularity = None

\* lines 351-358: context.item_popularity
RecItemPopularity ==
    /\ rec_contexts # None
    /\ \E c \in ContextIds :
          /\ rec_contexts[c] # None
          /\ rec_contexts[c].popularity_accesses < MaxAccesses
          /\ LET self == rec_contexts[c]
                 missing == PopularityMissing(self)
                 cached == IF missing
                           THEN Some(ItemPopularityOf(rec_data))
                           ELSE self._item_popularity
             IN rec_contexts' =
                    [rec_contexts EXCEPT ![c] =
                        [self EXCEPT !._item_popularity = cached,
                                     !.popularity_computed =
                                         IF missing THEN @ + 1 ELSE @,
                                     !.popularity_accesses = @ + 1,
                                     !.returned = [property |-> "item_popularity",
                                                   value |-> cached[1]]]]
    /\ UNCHANGED <<rec_data, outside_rec>>

NextRec ==
    \/ RecNewContext
    \/ RecObservedClasses
    \/ RecItemPopularity

SpecRec == InitRec /\ [][NextRec]_vars

\* ------------------------------------------------- PredictionDrift tests
\* tests/nlp/checks/model_evaluation/prediction_drift_test.py: the check is
\* driven as the tests drive it; its drift score is the Cramer's V that the
\* condition details of the tests name
PredictionRows == 1..MaxPredictions

PredictedClasses == {1, 2}

\* thresholds in hundredths: add_condition_drift_score_less_than(0.01) of
\* line 24 and the default 0.15 of lines 44 and 65
MaxAllowedScores == {1, 15}

InitDriftTest ==
    /\ WeakSegmentsIdle
    /\ BaseChecksIdle
    /\ DriftIdle
    /\ LabelsIdle
    /\ RecommenderIdle
    /\ \E train_predictions \in [PredictionRows -> PredictedClasses],
          test_predictions \in [PredictionRows -> PredictedClasses],
          with_label \in BOOLEAN, max_allowed \in MaxAllowedScores :
          drift_test = [train_predictions |-> train_predictions,
                        test_predictions |-> test_predictions,
                        with_label |-> with_label,
                        max_allowed_drift_score |-> max_allowed,
                        pc |-> "arranged",
                        value |-> None,
                        condition_result |-> None]

CountOf(predictions, class) ==
    Cardinality({i \in DOMAIN predictions : predictions[i] = class})

\* (mutation: every pair of samples is measured as drifted)
CramersV_Mutant(train_predictions, test_predictions) == [num |-> 1, den |-> 1]

\* the square of Cramer's V of the table of sample (train, test) by
\* predicted class, as a fraction: chi2 / n of a 2 x 2 table is
\* (ad - bc)^2 / (r1 r2 c1 c2); a table with an empty margin has no
\* association to measure and scores 0
CramersV(train_predictions, test_predictions) ==
    LET a == CountOf(train_predictions, 1)
        b == CountOf(train_predictions, 2)
        c == CountOf(test_predictions, 1)
        d == CountOf(test_predictions, 2)
        den == (a + b) * (c + d) * (a + c) * (b + d)
    IN IF den = 0 THEN [num |-> 0, den |-> 1]
       ELSE [num |-> (a * d - b * c) * (a * d - b * c), den |-> den]

\* lines 26-27, 46, 67: check.run(train, test, train_predictions, test_predictions)
DriftTestRun ==
    /\ drift_test # None
    /\ drift_test.pc = "arranged"
    /\ drift_test' =
          [drift_test EXCEPT
              !.pc = "ran",
              !.value = [drift_score |-> CramersV(drift_test.train_predictions,
                                                  drift_test.test_predictions),
                         method |-> "Cramer's V"]]
    /\ UNCHANGED outside_test

\* 'Prediction drift score < max_allowed': score < t / 100 for a score that
\* is the non-negative root of num / den
ScoreLessThan(score, max_allowed) ==
    10000 * score.num < max_allowed * max_allowed * score.den

\* lines 28, 47, 68: check.conditions_decision(result)
DriftTestConditionsDecision ==
    /\ drift_test # None
    /\ drift_test.pc = "ran"
    /\ drift_test' =
          [drift_test EXCEPT
              !.pc = "decided",
              !.condition_result =
                  [is_pass |-> ScoreLessThan(drift_test.value.drift_score,
                                             drift_test.max_allowed_drift_score),
                   name |-> <<"Prediction drift score <",
                              drift_test.max_allowed_drift_score>>]]
    /\ UNCHANGED outside_test

NextDriftTest ==
    \/ DriftTestRun
    \/ DriftTestConditionsDecision

SpecDriftTest == InitDriftTest /\ [][NextDriftTest]_vars

\* ------------------------------------------------------------------ claims
Called(name) == InSeq(name, calls)

ModelCalls == {"predict", "predict_proba", "get_single_scorer", "scorer"}

ReachedScoring == Called("_target_encode_categorical_features_fill_na") /\ pc # "score"

SearchDone == Called("_weak_segments_search")

Returned == outcome.kind = "CheckResult"

\* a is sum / n rounded to the nearest integer
IsRounded(a, sum, n) ==
    LET d == n * a - sum IN (IF d < 0 THEN 0 - d ELSE d) * 2 <= n

\* C1: with a caller-supplied score_per_sample the run takes the provided-scores
\* path: the scores used are the supplied ones at the sampled index, no scorer
\* and no dummy model is set up, and predict, predict_proba and the scorer are
\* never called at any point of the run.
C1_ProvidedScoresNoModelCall ==
    check.score_per_sample # None =>
        /\ \A c \in ModelCalls : ~Called(c)
        /\ ReachedScoring =>
              /\ scoring.path = "provided"
              /\ score_per_sample = [r \in DOMAIN text_data |-> check.score_per_sample[r]]
              /\ scoring.scorer = "None"
              /\ scoring.dummy_model = None

C1_Witness ==
    /\ check.score_per_sample # None
    /\ Returned
    /\ Cardinality(DOMAIN score_per_sample) < MaxRows

\* C2: with no score_per_sample supplied, a text-classification task and a
\* model without predict_proba, the run never returns a CheckResult, and every
\* such run that gets as far as the scoring stage ends with
\* DeepchecksNotSupportedError (predicted probabilities not supplied).
C2_NoProbaNotSupported ==
    ( /\ check.score_per_sample = None
      /\ context.task_type = "text_classification"
      /\ ~context.model.has_predict_proba ) =>
        /\ ~Returned
        /\ result = None
        /\ ReachedScoring =>
              /\ pc = "done"
              /\ outcome.kind = "DeepchecksNotSupportedError"
              /\ outcome.message = <<"Predicted probabilities not supplied">>

C2_Witness ==
    /\ check.score_per_sample = None
    /\ context.task_type = "text_classification"
    /\ ~context.model.has_predict_proba
    /\ ReachedScoring
    /\ outcome.kind = "DeepchecksNotSupportedError"

\* C3: when the error for a model without predict_proba is raised, no model
\* prediction call (predict, predict_proba) and no scorer call has been made
\* in the run.
C3_RaisedBeforeAnyModelCall ==
    outcome.message = <<"Predicted probabilities not supplied">> =>
        \A c \in ModelCalls : ~Called(c)

\* C4 (as claimed): a task type other than text classification ends every run
\* (that sampling and feature-table building let through) with
\* DeepchecksNotSupportedError, with or without score_per_sample, and the
\* segment search is never started.
C4_OtherTaskAlwaysUnsupported ==
    context.task_type # "text_classification" =>
        /\ ~SearchDone
        /\ (pc = "done" /\ outcome.kind # "ConfigurationError") =>
              outcome.kind = "DeepchecksNotSupportedError"

\* C4 (amended): a task type other than text classification ends the run with
\* DeepchecksNotSupportedError, the search never started, when the task is
\* token classification or when no score_per_sample was supplied; with
\* score_per_sample supplied, a task that is neither text nor token
\* classification is scored from the supplied scores and goes on to the search.
C4_OtherTaskUnsupportedWithoutScores ==
    /\ ( /\ context.task_type # "text_classification"
         /\ (context.task_type = "token_classification" \/ check.score_per_sample = None) ) =>
           /\ ~SearchDone
           /\ ~Returned
           /\ (pc = "done" /\ outcome.kind # "ConfigurationError") =>
                 outcome.kind = "DeepchecksNotSupportedError"
    /\ ( /\ context.task_type = "other"
         /\ check.score_per_sample # None
         /\ pc = "done"
         /\ outcome.kind # "ConfigurationError" ) =>
           /\ SearchDone
           /\ outcome.kind \in {"CheckResult", "DeepchecksProcessError"}

C4_Witness ==
    /\ context.task_type = "other"
    /\ check.score_per_sample = None
    /\ Called("predict")
    /\ outcome.kind = "DeepchecksNotSupportedError"

\* C5: when the search returns an empty list the run ends with
\* DeepchecksProcessError, whose message suggests increasing n_samples or
\* supplying more of the segmenting columns; neither the heatmap display nor
\* the result value is built, and no CheckResult holds an empty segment list.
C5_EmptySearchIsProcessError ==
    /\ (SearchDone /\ Len(weak_segments) = 0) =>
           /\ pc = "done"
           /\ outcome = [kind |-> "DeepchecksProcessError",
                         message |-> <<"Try increasing n_samples or supply more",
                                       check.segment_by>>]
           /\ result = None
           /\ ~Called("_create_heatmap_display")
           /\ ~Called("_generate_check_result_value")
    /\ Returned => Len(result.value.weak_segments) > 0

C5_Witness ==
    /\ SearchDone
    /\ Len(weak_segments) = 0
    /\ outcome.kind = "DeepchecksProcessError"

C7_SegmentsLargeEnough ==
    LET n == Cardinality(DOMAIN text_data)
        ratio == check.segment_minimum_size_ratio
        Selected(seg) == {r \in DOMAIN encoded_dataset.data :
                             \A p \in seg.preds : Satisfies(encoded_dataset.data[r], p)}
        Big(seg) == /\ seg.size * ratio[2] >= ratio[1] * n
                    /\ seg.size = Cardinality(Selected(seg))
    IN /\ SearchDone => \A i \in 1..Len(weak_segments) : Big(weak_segments[i])
       /\ Returned =>
             \A i \in DOMAIN result.value.weak_segments : Big(result.value.weak_segments[i])

\* a leaf of the ensemble was too small and is not reported
C7_Witness ==
    /\ Returned
    /\ \E S \in members : \E P \in Leaves(encoded_dataset.data, S) :
          LET seg == SegmentOf(encoded_dataset.data, score_per_sample, P)
          IN /\ seg.size > 0
             /\ seg.size * check.segment_minimum_size_ratio[2]
                   < check.segment_minimum_size_ratio[1] * Cardinality(DOMAIN text_data)

\* weakness of a segment = global average score - segment score; Weaker(a, b)
\* compares the two weaknesses as fractions over the common denominator
GlobalTotal == SumOver(score_per_sample, DOMAIN score_per_sample)

WeaknessTimes(seg, k) ==
    (GlobalTotal * seg.size - seg.total * Cardinality(DOMAIN score_per_sample)) * k

\* C8: the ranked segment list is sorted by descending weakness (global average
\* score minus segment score), and of two segments of equal weakness the larger
\* one comes first.
C8_RankedByWeaknessThenSize ==
    SearchDone =>
        \A i, j \in 1..Len(weak_segments) :
            i < j =>
                LET a == weak_segments[i]
                    b == weak_segments[j]
                IN /\ WeaknessTimes(a, b.size) >= WeaknessTimes(b, a.size)
                   /\ WeaknessTimes(a, b.size) = WeaknessTimes(b, a.size) => a.size >= b.size

C8_Witness ==
    /\ SearchDone
    /\ \E i, j \in 1..Len(weak_segments) :
          /\ i < j
          /\ WeaknessTimes(weak_segments[i], weak_segments[j].size)
                = WeaknessTimes(weak_segments[j], weak_segments[i].size)
          /\ weak_segments[i].size > weak_segments[j].size
    /\ \E i, j \in 1..Len(weak_segments) :
          WeaknessTimes(weak_segments[i], weak_segments[j].size)
             > WeaknessTimes(weak_segments[j], weak_segments[i].size)

\* C9: two runs on the same data, the same model (or the same supplied
\* score_per_sample) and the same seed end the same way, with the same ranked
\* segment list and the same average score.
C9_TwoRunsSameResult ==
    (run = 2 /\ pc = "done") => (prev = [outcome |-> outcome, result |-> result])

\* C10: every random-dependent step of the run (row sampling, column
\* subsampling, the search) is handed the caller's seed context.random_state.
C10_EveryRandomStepSeeded ==
    \A i \in 1..Len(seeds) : seeds[i].seed = <<context.random_state>>

\* ---- the order of the stages, read off the call log
FirstCall(name) ==
    IF Called(name) THEN CHOOSE i \in 1..Len(calls) :
                            /\ calls[i] = name
                            /\ \A j \in 1..(i - 1) : calls[j] # name
    ELSE 0

TimesCalled(name) == Cardinality({i \in 1..Len(calls) : calls[i] = name})

BuildCall == "get_relevant_data_table"
EncodeCall == "_target_encode_categorical_features_fill_na"
ScoringCalls == ModelCalls \cup {"calculate_neg_cross_entropy_per_sample", "_DummyModel"}
SearchCall == "_weak_segments_search"
FormatCalls == {"_create_heatmap_display", "_generate_check_result_value"}

\* C11: the stages of a run happen in the fixed order feature table, encoding,
\* scoring, search, formatting, each at most once and none before the one
\* before it has finished; the search starts only when the encoded table and
\* the per-sample scores exist.
C11_StagesInFixedOrder ==
    /\ \A n \in {BuildCall, EncodeCall, SearchCall} \cup FormatCalls : TimesCalled(n) <= 1
    /\ Called(EncodeCall) => (0 < FirstCall(BuildCall) /\ FirstCall(BuildCall) < FirstCall(EncodeCall))
    /\ encoded_dataset # None => Called(EncodeCall)
    /\ \A i \in 1..Len(calls) :
          calls[i] \in ScoringCalls => FirstCall(EncodeCall) \in 1..(i - 1)
    /\ (scoring # None \/ score_per_sample # None) => encoded_dataset # None
    /\ (pc = "search" \/ SearchDone) =>
          /\ encoded_dataset # None
          /\ score_per_sample # None
          /\ scoring # None
    /\ \A i \in 1..Len(calls) :
          calls[i] \in ScoringCalls \cup {BuildCall, EncodeCall} =>
              (SearchDone => i < FirstCall(SearchCall))
    /\ weak_segments # None => SearchDone
    /\ \A i \in 1..Len(calls) :
          calls[i] \in FormatCalls =>
              /\ FirstCall(SearchCall) \in 1..(i - 1)
              /\ weak_segments # None
    /\ result # None => Called("_generate_check_result_value")

C11_Witness ==
    /\ Returned
    /\ Called("predict_proba")
    /\ Called("_create_heatmap_display")
    /\ Len(weak_segments) > 1

\* C12: with n_samples = 0 a run that gets as far as sampling ends with a
\* configuration error: it never encodes, scores or searches, and it never
\* returns a result, empty or not.
C12_ZeroSamplesIsConfigurationError ==
    check.n_samples = 0 =>
        /\ pc \in {"validate", "sample", "build", "done"}
        /\ ~Called(EncodeCall)
        /\ ~SearchDone
        /\ scoring = None /\ weak_segments = None
        /\ ~Returned /\ result = None
        /\ (pc = "done" /\ Called("sample")) => outcome.kind = "ConfigurationError"

C12_Witness ==
    /\ check.n_samples = 0
    /\ Called("sample")
    /\ text_data = None
    /\ outcome.kind = "ConfigurationError"

\* C13: no step of a run, whether the run ends with a result or with an error,
\* changes the caller's dataset: sampling and encoding work on copies.
C13_DatasetUnchanged == [][dataset' = dataset]_vars

C13_Witness ==
    /\ Returned
    /\ encoded_dataset # None
    /\ DOMAIN text_data # DOMAIN dataset
    /\ DOMAIN dataset = Rows
    /\ cat_features # {}

\* C14: the heatmap builder is called exactly when the context has display
\* enabled; with display disabled it is never called and the display map of
\* the result is empty; in both modes the result value is the ranked segment
\* list of the search with the average score of the scoring stage.
C14_HeatmapOnlyWithDisplay ==
    /\ Called("_create_heatmap_display") => context.with_display
    /\ Returned =>
          /\ Called("_create_heatmap_display") <=> context.with_display
          /\ ~context.with_display => result.display.display_map = <<>>
          /\ context.with_display => result.display.display_map # <<>>
          /\ result.value.avg_score = scoring.avg_score
          /\ Len(result.value.weak_segments) = Len(weak_segments)
          /\ \A i \in 1..Len(weak_segments) :
                /\ result.value.weak_segments[i].preds = weak_segments[i].preds
                /\ result.value.weak_segments[i].size = weak_segments[i].size
                /\ result.value.weak_segments[i].total = weak_segments[i].total

C14_Witness ==
    /\ Returned
    /\ ~context.with_display
    /\ result.display.display_map = <<>>
    /\ Len(result.value.weak_segments) > 1

\* ---- tabular base checks
RunLogged(name) == call # None /\ InSeq(name, call.log)

\* C15: a check instance carries nothing from one run to the next: the context
\* class of a run is RecContext for a recommendation dataset and otherwise the
\* context_type the class declares, or the tabular Context when it declares none.
C15_ContextTypeFromDatasetOnly ==
    (call # None /\ call.context # None) =>
        call.context.type =
            (IF call.args.label_type = "recommendation" THEN "RecContext"
             ELSE IF instance.declared # NoContextType THEN instance.declared
             ELSE "Context")

\* the two rejections that precede the prediction arguments (lines 83-87)
UnsupportedArguments ==
    \/ call.args.label_type # "recommendation" /\ call.args.item_dataset
    \/ call.args.label_type = "recommendation" /\ call.args.model_classes

\* C16: SingleDatasetCheck.run given both y_proba_train and y_proba raises
\* DeepchecksValueError('Cannot accept both y_proba_train and y_proba'), as it
\* does with the y_pred message for both y_pred_train and y_pred: no context is
\* built and run_logic is not called (in a call that the earlier tests of
\* lines 83-93 let through).
C16_BothProbaRejected ==
    (call # None /\ instance.cls = "SingleDatasetCheck" /\ ~UnsupportedArguments) =>
        /\ (call.args.y_pred_train /\ call.args.y_pred) =>
              /\ call.log = <<>> /\ call.context = None
              /\ call.pc = "done" =>
                    call.outcome = [kind |-> "DeepchecksValueError",
                                    message |-> "Cannot accept both y_pred_train and y_pred"]
        /\ (call.args.y_proba_train /\ call.args.y_proba
               /\ ~(call.args.y_pred_train /\ call.args.y_pred)) =>
              /\ call.log = <<>> /\ call.context = None
              /\ call.pc = "done" =>
                    call.outcome = [kind |-> "DeepchecksValueError",
                                    message |-> "Cannot accept both y_proba_train and y_proba"]

\* C17: SingleDatasetCheck.run and TrainTestCheck.run given item_dataset with a
\* dataset that is not a recommendation dataset, or model_classes with one that
\* is, raise DeepchecksNotSupportedError: no context is built, the instance's
\* context_type is left alone, run_logic and finalize_check_result are not called.
C17_UnsupportedArgumentsRejected ==
    (call # None /\ UnsupportedArguments) =>
        /\ call.pc \in {"validate", "done"}
        /\ call.log = <<>>
        /\ call.context = None
        /\ call.pc = "done" =>
              /\ call.outcome.kind = "DeepchecksNotSupportedError"
              /\ call.outcome.message =
                    (IF call.args.label_type # "recommendation"
                     THEN "item_dataset is not supported for tabular datasets."
                     ELSE "model_classes is not supported for recommendation datasets.")
        /\ n_runs = 1 => instance.context_type = instance.declared

C17_Witness ==
    /\ call # None
    /\ instance.cls = "TrainTestCheck"
    /\ call.args.label_type = "binary" /\ call.args.item_dataset
    /\ call.pc = "done"
    /\ call.outcome.kind = "DeepchecksNotSupportedError"
    /\ n_runs = 2

\* ---- UserSessionDrift
\* C18: the condition of add_condition_drift_score_less_than passes exactly
\* when the result is strictly below max_allowed_score and fails otherwise,
\* a result equal to max_allowed_score included.
C18_PassIffStrictlyLess ==
    drift_eval # None =>
        /\ drift_eval.category \in {"PASS", "FAIL"}
        /\ drift_eval.category = "PASS" <=> drift_eval.result < drift_eval.max_allowed_score

\* C19: the constructor accepts aggregation_method only when it is 'weighted',
\* 'mean', 'max' or None, and raises DeepchecksValueError for any other value.
C19_AggregationMethodValidated ==
    drift_check # None =>
        IF drift_check.aggregation_method \in {"weighted", "mean", "max", NoAggregation}
        THEN drift_check.raised = ""
        ELSE drift_check.raised = "DeepchecksValueError"

\* ---- ConflictingLabels
\* C20: the conflicting samples of the result are exactly the sampled rows
\* whose normalized-text hash is shared by sampled rows with more than one
\* distinct label, and percent_of_conflicting_samples is their number divided
\* by the number of sampled rows, a value between 0 and 1.
C20_ConflictingSamplesExact ==
    (labels_run # None /\ labels_run.value # None) =>
        LET data == labels_run.dataset
            h(r) == HashText(NormalizeText(data[r].text, labels_check.self.ignore_case))
            conflicting == {r \in DOMAIN data :
                               \E q \in DOMAIN data :
                                   h(q) = h(r) /\ data[q].label # data[r].label}
            reported == labels_run.value.conflicting_samples
            percent == labels_run.value.percent_of_conflicting_samples
        IN /\ {reported[i].sample_id : i \in 1..Len(reported)} = conflicting
           /\ Len(reported) = Cardinality(conflicting)
           /\ \A i \in 1..Len(reported) :
                 reported[i].text = labels_check.dataset.rows[reported[i].sample_id].text
           /\ percent.num = Cardinality(conflicting)
           /\ percent.den = Cardinality(DOMAIN data)
           /\ 0 <= percent.num /\ percent.num <= percent.den /\ percent.den > 0

C20_Witness ==
    /\ labels_run # None
    /\ labels_run.outcome.kind = "CheckResult"
    /\ labels_run.value.percent_of_conflicting_samples = [num |-> 2, den |-> 3]
    /\ \E i, j \in 1..2 :
          labels_run.value.conflicting_samples[i].text
              # labels_run.value.conflicting_samples[j].text

LabelsCalled(name) == labels_run # None /\ InSeq(name, labels_run.calls)

\* C21: on a dataset that is empty after sampling run_logic raises
\* DeepchecksValueError('Dataset cannot be empty') with no normalization,
\* hashing or grouping done; on a task type that is none of token
\* classification, multi-label or text classification it raises
\* DeepchecksValueError; neither run returns a CheckResult.
C21_EmptyOrUnknownTaskRejected ==
    labels_run # None =>
        /\ labels_check.self.n_samples = 0 =>
              /\ ~LabelsCalled("normalize_samples")
              /\ ~LabelsCalled("hash_samples")
              /\ labels_run.samples_hashes = None
              /\ labels_run.labels = None
              /\ labels_run.value = None
              /\ labels_run.pc \in {"sample", "done"}
              /\ labels_run.pc = "done" =>
                    labels_run.outcome = [kind |-> "DeepchecksValueError",
                                          message |-> "Dataset cannot be empty"]
        /\ (labels_check.dataset.task_type \notin {"token_classification", "text_classification"}
               /\ ~labels_check.dataset.is_multi_label) =>
              /\ labels_run.value = None
              /\ labels_run.outcome.kind # "CheckResult"
              /\ labels_run.pc = "done" => labels_run.outcome.kind = "DeepchecksValueError"

C21_Witness ==
    /\ labels_run # None
    /\ labels_check.self.n_samples = 0
    /\ labels_check.dataset.task_type = "text_classification"
    /\ labels_run.pc = "done"
    /\ labels_run.outcome.message = "Dataset cannot be empty"

LabelsReturned == labels_run # None /\ labels_run.outcome.kind = "CheckResult"

\* the hash of a sampled row, and the hashes that sampled rows with more
\* than one distinct label share
SampleHash(r) ==
    HashText(NormalizeText(labels_run.dataset[r].text, labels_check.self.ignore_case))

ConflictingGroups ==
    {SampleHash(r) : r \in {q \in DOMAIN labels_run.dataset :
                               \E p \in DOMAIN labels_run.dataset :
                                   /\ SampleHash(p) = SampleHash(q)
                                   /\ labels_run.dataset[p].label # labels_run.dataset[q].label}}

C27_ValueIndependentOfDisplay ==
    LabelsReturned =>
        /\ labels_run.value = LabelsValue(labels_run.dataset, labels_run.samples_hashes,
                                          labels_run.labels)
        /\ \A i \in 1..Len(labels_run.value.conflicting_samples) :
              LET row == labels_run.value.conflicting_samples[i]
              IN row.text = labels_check.dataset.rows[row.sample_id].text
        /\ ~labels_check.context.with_display => labels_run.display = None

C27_Witness ==
    /\ LabelsReturned
    /\ labels_check.context.with_display
    /\ Len(labels_run.display.display_table) > 0
    /\ labels_run.display.display_table[1].text = <<"b", "...">>
    /\ labels_run.value.conflicting_samples[1].text = <<"b", "b">>

\* ---- weak segments: the task rejections
\* C25: a token-classification or multi-label task is rejected before any
\* work: when the rejection fires nothing has been sampled, no feature table
\* built, no model called and no search started.
C25_TaskRejectedBeforeAnyWork ==
    (context # None /\ (context.task_type = "token_classification" \/ context.is_multi_label)) =>
        /\ pc \in {"validate", "done"}
        /\ calls = <<>> /\ seeds = <<>>
        /\ text_data = None
        /\ features = {} /\ encoded_dataset = None
        /\ score_per_sample = None /\ scoring = None
        /\ weak_segments = None /\ result = None
        /\ pc = "done" => outcome.kind = "DeepchecksNotSupportedError"

C25_Witness ==
    /\ context # None
    /\ context.is_multi_label
    /\ check.n_samples = 0
    /\ pc = "done"
    /\ outcome = [kind |-> "DeepchecksNotSupportedError", message |-> <<"multi_label">>]

\* ---- the four run methods
TimesLogged(name) ==
    Cardinality({i \in 1..Len(call.log) : call.log[i] = name})

\* C28: a run returns a result only after the context was built, run_logic
\* completed and finalize_check_result was called exactly once, in that
\* order; a run in which validation, context construction or run_logic
\* raises never calls finalize_check_result and returns nothing.
C28_FinalizedExactlyOnceBeforeReturn ==
    call # None =>
        /\ TimesLogged("finalize_check_result") <= 1
        /\ call.outcome.kind = "CheckResult" =>
              call.log = <<"context", "run_logic", "finalize_check_result">>
        /\ RunLogged("finalize_check_result") =>
              /\ call.outcome.kind = "CheckResult"
              /\ call.context # None
        /\ (call.pc = "done" /\ call.outcome.kind # "CheckResult") =>
              /\ ~RunLogged("finalize_check_result")
              /\ call.log \in {<<>>, <<"context", "run_logic">>}
        /\ call.pc = "done" => call.outcome.kind # "running"

C28_Witness ==
    /\ call # None
    /\ instance.cls = "ModelComparisonCheck"
    /\ n_runs = 2
    /\ call.outcome.kind = "CheckResult"
    /\ call.log = <<"context", "run_logic", "finalize_check_result">>

\* the distinct non-missing labels of a dataset's label column
LabelsOf(ds) ==
    IF ds = None THEN {}
    ELSE UNION {{ds.label[i][j] : j \in DOMAIN ds.label[i]} : i \in DOMAIN ds.label} \ {0}

ContextBuilt(c) == rec_contexts # None /\ rec_contexts[c] # None

\* C22: observed_classes is the sorted list of the distinct non-null labels
\* observed in the train and the test sets together, and every access after
\* the first returns that same list.
C22_ObservedInTrainAndTest ==
    \A c \in ContextIds :
        (ContextBuilt(c) /\ rec_contexts[c]._observed_classes # None) =>
            LET observed == rec_contexts[c]._observed_classes[1]
                classes == LabelsOf(rec_data.train) \cup LabelsOf(rec_data.test)
            IN /\ {observed[k] : k \in DOMAIN observed} = classes
               /\ Len(observed) = Cardinality(classes)
               /\ \A k \in 1..(Len(observed) - 1) : observed[k] < observed[k + 1]
               /\ rec_contexts[c].returned # None
               /\ rec_contexts[c].returned.property = "observed_classes" =>
                      rec_contexts[c].returned.value = observed

\* C24: on each step, a context has computed its item popularity at most
\* once and exactly when it was accessed, an access that finds the mapping
\* returns it without computing it again, a mapping once cached never
\* changes, and an access on one context leaves the cache of every other
\* context as it was.
C24_PopularityMemoizedPerContext ==
    [][\A c \in ContextIds :
          (ContextBuilt(c) /\ rec_contexts'[c] # rec_contexts[c]) =>
              LET before == rec_contexts[c]
                  after == rec_contexts'[c]
              IN /\ after.popularity_computed <= 1
                 /\ (after._item_popularity = None) = (after.popularity_accesses = 0)
                 /\ before._item_popularity # None =>
                        /\ after._item_popularity = before._item_popularity
                        /\ after.popularity_computed = before.popularity_computed
                 /\ after.popularity_accesses > before.popularity_accesses =>
                        /\ after.returned.value = after._item_popularity[1]
                        /\ \A item \in DOMAIN after.returned.value :
                               after.returned.value[item] =
                                   Cardinality({at \in TrainLabels(rec_data) :
                                                   LabelAt(rec_data, at) = item})
                        /\ \A o \in ContextIds \ {c} : rec_contexts'[o] = rec_contexts[o]]_vars

C24_Witness ==
    /\ ContextBuilt(1)
    /\ ContextBuilt(2)
    /\ rec_contexts[1].popularity_accesses >= 2
    /\ rec_contexts[1].popularity_computed = 1
    /\ rec_contexts[1]._item_popularity # None
    /\ DOMAIN rec_contexts[1]._item_popularity[1] = {1, 2}
    /\ rec_contexts[2]._item_popularity = None

\* C29: the construction of a context over a train and a test dataset whose
\* indexes share a value prefixes every train index with 'train-' and every
\* test index with 'test-', leaves the two index sets disjoint and keys the
\* stored predictions by the prefixed indexes; over datasets that share no
\* index value it leaves both datasets as they were.
C29_SharedIndexesArePrefixed ==
    [][\A c \in ContextIds :
          (rec_contexts # None /\ rec_contexts[c] = None /\ rec_contexts'[c] # None) =>
              LET train == rec_data.train
                  test == rec_data.test
                  new_train == rec_data'.train
                  new_test == rec_data'.test
                  predictions == rec_contexts'[c].model.predictions
                  keys == (IF rec_data.y_pred_train = None THEN <<>> ELSE new_train.index)
                             \o (IF test = None \/ rec_data.y_pred_test = None
                                 THEN <<>> ELSE new_test.index)
              IN /\ IF test # None /\ \E i \in DOMAIN train.index :
                                        \E j \in DOMAIN test.index :
                                            train.index[i] = test.index[j]
                    THEN /\ \A i \in DOMAIN train.index :
                               new_train.index[i] =
                                   <<"train-" \o train.index[i][1], train.index[i][2]>>
                         /\ \A j \in DOMAIN test.index :
                               new_test.index[j] =
                                   <<"test-" \o test.index[j][1], test.index[j][2]>>
                         /\ \A i \in DOMAIN new_train.index :
                               \A j \in DOMAIN new_test.index :
                                   new_train.index[i] # new_test.index[j]
                         /\ new_train.label = train.label
                         /\ new_test.label = test.label
                    ELSE rec_data' = rec_data
                 /\ IF keys = <<>> THEN predictions = None
                    ELSE /\ predictions # None
                         /\ Len(predictions[1]) = Len(keys)
                         /\ \A k \in DOMAIN keys : predictions[1][k].key = keys[k]]_vars

C29_Witness ==
    /\ ContextBuilt(1)
    /\ rec_data.test # None
    /\ \A i \in RecRows : rec_data.train.index[i] = <<"train-", i>>
    /\ \E i \in RecRows : rec_data.test.index[i] = <<"test-", 1>>
    /\ rec_contexts[1].model.predictions # None
    /\ Len(rec_contexts[1].model.predictions[1]) = 2 * MaxRecRows
    /\ rec_contexts[1].model.predictions[1][1].key = <<"train-", 1>>

\* C23: a run of the prediction-drift check whose test predictions are its
\* train predictions has a drift score of exactly 0 and passes the default
\* condition 'Prediction drift score < 0.15', with labels and without; a run
\* whose drift score is above the threshold of its condition does not pass.
C23_NoDriftPassesAndDriftFails ==
    (drift_test # None /\ drift_test.value # None) =>
        LET score == drift_test.value.drift_score
            max_allowed == drift_test.max_allowed_drift_score
        IN /\ drift_test.test_predictions = drift_test.train_predictions =>
                 /\ score.num = 0
                 /\ (drift_test.condition_result # None /\ max_allowed = 15) =>
                        drift_test.condition_result.is_pass
           /\ (drift_test.condition_result # None
                  /\ 10000 * score.num > max_allowed * max_allowed * score.den) =>
                 ~drift_test.condition_result.is_pass

C23_Witness ==
    /\ drift_test # None
    /\ drift_test.pc = "decided"
    /\ drift_test.test_predictions = drift_test.train_predictions
    /\ {drift_test.train_predictions[i] : i \in PredictionRows} = PredictedClasses
    /\ ~drift_test.with_label
    /\ drift_test.max_allowed_drift_score = 15
    /\ drift_test.value.drift_score.num = 0
    /\ drift_test.condition_result.is_pass
====
